---- MODULE Spec2Model ----
(***************************************************************************)
(* A model of scripts/qa_today_only_check.py: the pattern catalog, the     *)
(* document accessors, the six rule evaluators, summarize and main.         *)
(*                                                                         *)
(* Text is a sequence of lexemes (short strings); the characters of a text *)
(* are the concatenation of its lexemes.  "\n" is the line break lexeme.    *)
(* A call that may raise returns Ret(v) or Raise(e); try/except is a test   *)
(* of the field raised.                                                     *)
(***************************************************************************)
EXTENDS Integers, Sequences, FiniteSets, TLC

VARIABLES env, pc, found, results, report, failures, stdout, exit_status

vars == <<env, pc, found, results, report, failures, stdout, exit_status>>

PASS == "PASS"
FAIL == "FAIL"
WARN == "WARN"

NB01 == "notebooks/01_problem_framing.ipynb"
NB02 == "notebooks/02_data_understanding.ipynb"
RED_CSV == "data/winequality-red.csv"
WHITE_CSV == "data/winequality-white.csv"
README == "README.md"
REQUIREMENTS_TXT == "requirements.txt"
GITIGNORE == ".gitignore"

REQUIRED_FILES ==
    <<NB01, NB02, RED_CSV, WHITE_CSV, README, REQUIREMENTS_TXT, GITIGNORE>>

Range(s) == {s[i] : i \in DOMAIN s}

Ret(v) == [raised |-> FALSE, value |-> v]
Raise(e) == [raised |-> TRUE, err |-> e]

(***************************************************************************)
(* Regular expressions over lexemes.  A pattern is a set of alternatives,  *)
(* each a sequence of atoms: a literal lexeme, one lexeme of a class, or    *)
(* zero or more lexemes of a class.                                         *)
(***************************************************************************)
WS == {" ", "\n", "\t"}
QUOTES == {"\"", "'"}

Lit(l) == [kind |-> "lit", lex |-> l]
One(c) == [kind |-> "one", class |-> c]
Star(c) == [kind |-> "star", class |-> c]

\* str.lower on a lexeme.
Lower(l) ==
    CASE l = "Pandas" -> "pandas"
      [] l = "NumPy" -> "numpy"
      [] l = "Scikit-Learn" -> "scikit-learn"
      [] l = "Matplotlib" -> "matplotlib"
      [] l = "Seaborn" -> "seaborn"
      [] l = "Interpretation" -> "interpretation"
      [] l = "Insight" -> "insight"
      [] l = "WINE CLASSIFICATION" -> "wine classification"
      [] l = "Wine Classification" -> "wine classification"
      [] l = "Problem Framing" -> "problem framing"
      [] l = "UCI" -> "uci"
      [] l = "Wine Quality" -> "wine quality"
      [] l = "Red" -> "red"
      [] l = "SVC" -> "svc"
      [] l = "X" -> "x"
      [] OTHER -> l

LowerText(s) == [i \in DOMAIN s |-> Lower(s[i])]

InClass(l, c) ==
    CASE c = "ws" -> l \in WS
      [] c = "dot" -> l # "\n"
      [] c = "quote" -> l \in QUOTES

RECURSIVE MatchFrom(_, _, _, _, _)
MatchFrom(p, k, s, i, icase) ==
    IF k > Len(p) THEN TRUE
    ELSE LET a == p[k] IN
         CASE a.kind = "lit" ->
                /\ i <= Len(s)
                /\ IF icase THEN Lower(s[i]) = Lower(a.lex) ELSE s[i] = a.lex
                /\ MatchFrom(p, k + 1, s, i + 1, icase)
           [] a.kind = "one" ->
                /\ i <= Len(s)
                /\ InClass(s[i], a.class)
                /\ MatchFrom(p, k + 1, s, i + 1, icase)
           [] a.kind = "star" ->
                \/ MatchFrom(p, k + 1, s, i, icase)
                \/ /\ i <= Len(s)
                   /\ InClass(s[i], a.class)
                   /\ MatchFrom(p, k, s, i + 1, icase)

\* re.search(pat, s, flags) is not None
re_search(pat, s, icase) ==
    \E alt \in pat.alts : \E i \in 1..(Len(s) + 1) : MatchFrom(alt, 1, s, i, icase)

\* `needle in s` for str: a contiguous occurrence.
Contains(needle, s) ==
    \E i \in 1..(Len(s) + 1) :
        /\ i + Len(needle) - 1 <= Len(s)
        /\ \A j \in 1..Len(needle) : s[i + j - 1] = needle[j]

RECURSIVE JoinStr(_, _)
\* sep.join(strs) for strings
JoinStr(strs, sep) ==
    IF Len(strs) = 0 THEN ""
    ELSE IF Len(strs) = 1 THEN strs[1]
    ELSE strs[1] \o sep \o JoinStr(Tail(strs), sep)

RECURSIVE Concat(_)
\* the characters of a text: its lexemes concatenated
Concat(s) == IF Len(s) = 0 THEN "" ELSE s[1] \o Concat(Tail(s))

RECURSIVE JoinText(_, _)
\* sep.join(texts) for lexeme texts
JoinText(texts, sep) ==
    IF Len(texts) = 0 THEN <<>>
    ELSE IF Len(texts) = 1 THEN texts[1]
    ELSE texts[1] \o sep \o JoinText(Tail(texts), sep)

\* [x for x in s if Test(x)]
Filter(s, Test(_)) == SelectSeq(s, Test)

(***************************************************************************)
(* The pattern catalog.                                                     *)
(***************************************************************************)
GITIGNORE_REQUIRED_PATTERNS == <<
    [src |-> "\\.ipynb_checkpoints/", alts |-> {<<Lit(".ipynb_checkpoints/")>>}],
    [src |-> "venv/", alts |-> {<<Lit("venv/")>>}],
    [src |-> "__pycache__/", alts |-> {<<Lit("__pycache__/")>>}],
    [src |-> "results/", alts |-> {<<Lit("results/")>>}],
    [src |-> "notebooks/03_.*", alts |-> {<<Lit("notebooks/"), Lit("03_"), Star("dot")>>}],
    [src |-> "notebooks/04_.*", alts |-> {<<Lit("notebooks/"), Lit("04_"), Star("dot")>>}],
    [src |-> "notebooks/05_.*", alts |-> {<<Lit("notebooks/"), Lit("05_"), Star("dot")>>}] >>

REQUIREMENTS_MIN == {"pandas", "numpy", "scikit-learn", "matplotlib", "seaborn"}

SKLEARN_CLASS_NAMES == <<
    <<"LogisticRegression">>, <<"RandomForest">>, <<"RandomForest", "Classifier">>,
    <<"GradientBoosting">>, <<"GradientBoosting", "Classifier">>, <<"SVC">>,
    <<"KNeighborsClassifier">>, <<"XGBClassifier">>, <<"DecisionTreeClassifier">>,
    <<"GaussianNB">>, <<"BernoulliNB">>, <<"MultinomialNB">>, <<"Linear", "SVC">>,
    <<"LinearDiscriminantAnalysis">>, <<"QuadraticDiscriminantAnalysis">> >>

(***************************************************************************)
(* The file system under root, as the program sees it.                      *)
(*   env.exists        the required paths that exist                        *)
(*   env.text[p]       a text file: [readable, utf8, text]                  *)
(*   env.nb[p]         a notebook file: [valid, err, cells]                 *)
(*   env.csv[p]        a delimited file: [valid, err, rows, cols]           *)
(*   env.nbformat      the import of nbformat succeeded                     *)
(*   env.pd            the import of pandas succeeded                       *)
(***************************************************************************)

\* Path.exists
path_exists(e, rel) == rel \in e.exists

\* Path.read_text(encoding=enc)
read_text(e, rel, enc) ==
    LET f == e.text[rel] IN
    IF ~path_exists(e, rel) THEN Raise("No such file or directory")
    ELSE IF ~f.readable THEN Raise("Permission denied")
    ELSE IF enc = "utf-8" /\ ~f.utf8 THEN Raise("codec can't decode")
    ELSE Ret(f.text)

load_text(e, rel) ==
    LET a == read_text(e, rel, "utf-8") IN
    IF ~a.raised THEN a.value
    ELSE LET b == read_text(e, rel, "latin-1") IN
         IF ~b.raised THEN b.value ELSE <<>>

check_files_exist_wrong(e) ==
    Ret([i \in DOMAIN REQUIRED_FILES |->
            LET rel == REQUIRED_FILES[i]
                ok == path_exists(e, rel)
            IN <<"Exists: " \o rel, IF ok THEN PASS ELSE WARN,
                 IF ok THEN "" ELSE "Missing " \o rel>>])

check_files_exist(e) ==
    Ret([i \in DOMAIN REQUIRED_FILES |->
            LET rel == REQUIRED_FILES[i]
                ok == path_exists(e, rel)
            IN <<"Exists: " \o rel, IF ok THEN PASS ELSE FAIL,
                 IF ok THEN "" ELSE "Missing " \o rel>>])

PatSrc(s) == [i \in DOMAIN s |-> s[i].src]

check_gitignore_fail_on_missing(e) ==
    IF ~path_exists(e, GITIGNORE)
    THEN Ret(<< <<"gitignore present & includes rules", FAIL, ".gitignore not found">> >>)
    ELSE
      LET text == load_text(e, GITIGNORE)
          Missing(pat) == ~re_search(pat, text, FALSE)
          missing == Filter(GITIGNORE_REQUIRED_PATTERNS, Missing)
      IN IF Len(missing) > 0
         THEN Ret(<< <<"gitignore includes today-only rules", FAIL,
                       "Add patterns: " \o JoinStr(PatSrc(missing), ", ")>> >>)
         ELSE Ret(<< <<"gitignore includes today-only rules", PASS, "">> >>)

check_gitignore(e) ==
    IF ~path_exists(e, GITIGNORE)
    THEN Ret(<< <<"gitignore present & includes rules", FAIL, ".gitignore not found">> >>)
    ELSE
      LET text == load_text(e, GITIGNORE)
          Missing(pat) == ~re_search(pat, text, FALSE)
          missing == Filter(GITIGNORE_REQUIRED_PATTERNS, Missing)
      IN IF Len(missing) > 0
         THEN Ret(<< <<"gitignore includes today-only rules", WARN,
                       "Add patterns: " \o JoinStr(PatSrc(missing), ", ")>> >>)
         ELSE Ret(<< <<"gitignore includes today-only rules", PASS, "">> >>)

(***************************************************************************)
(* Lines of a text.                                                         *)
(***************************************************************************)
RECURSIVE splitlines(_)
\* str.splitlines: the lines between "\n", no empty last line
splitlines(s) ==
    IF Len(s) = 0 THEN <<>>
    ELSE IF \E i \in DOMAIN s : s[i] = "\n"
         THEN LET i == CHOOSE i \in DOMAIN s :
                          s[i] = "\n" /\ \A j \in 1..(i - 1) : s[j] # "\n"
              IN <<SubSeq(s, 1, i - 1)>> \o splitlines(SubSeq(s, i + 1, Len(s)))
         ELSE <<s>>

RECURSIVE lstrip(_)
lstrip(s) == IF Len(s) > 0 /\ s[1] \in WS THEN lstrip(Tail(s)) ELSE s

RECURSIVE rstrip(_)
rstrip(s) ==
    IF Len(s) > 0 /\ s[Len(s)] \in WS THEN rstrip(SubSeq(s, 1, Len(s) - 1)) ELSE s

\* str.strip
strip(s) == rstrip(lstrip(s))

\* s.split(sep)[0]: the text before the first occurrence of the lexeme sep
split_first(s, sep) ==
    IF \E i \in DOMAIN s : s[i] = sep
    THEN LET i == CHOOSE i \in DOMAIN s : s[i] = sep /\ \A j \in 1..(i - 1) : s[j] # sep
         IN SubSeq(s, 1, i - 1)
    ELSE s

\* s.startswith(prefix) for a one-lexeme prefix
startswith(s, l) == Len(s) > 0 /\ s[1] = l

\* sorted() over the names of REQUIREMENTS_MIN
SortedNames == <<"matplotlib", "numpy", "pandas", "scikit-learn", "seaborn">>

check_requirements(e) ==
    IF ~path_exists(e, REQUIREMENTS_TXT)
    THEN Ret(<< <<"requirements.txt present", FAIL, "requirements.txt not found">> >>)
    ELSE
      LET text == load_text(e, REQUIREMENTS_TXT)
          lines == splitlines(text)
          found_ == {Concat(LowerText(split_first(strip(lines[i]), "=="))) :
                        i \in {j \in DOMAIN lines :
                                 /\ Len(strip(lines[j])) > 0
                                 /\ ~startswith(strip(lines[j]), "#")}}
          missing == {Lower(pkg) : pkg \in {q \in REQUIREMENTS_MIN : Lower(q) \notin found_}}
          InMissing(n) == n \in missing
      IN IF missing # {}
         THEN Ret(<< <<"requirements includes minimal deps", WARN,
                       "Missing: " \o JoinStr(Filter(SortedNames, InMissing), ", ")>> >>)
         ELSE Ret(<< <<"requirements includes minimal deps", PASS, "">> >>)

(***************************************************************************)
(* The document accessor.  A notebook is [none, cells]; a cell is           *)
(* [cell_type, source, outputs]; an output is [has_data, data], data the    *)
(* set of media-type keys.                                                  *)
(***************************************************************************)
None == [none |-> TRUE]

\* nbformat.read(path, as_version=4)
nbformat_read(e, rel) ==
    LET f == e.nb[rel] IN
    IF ~path_exists(e, rel) THEN Raise("[Errno 2] No such file or directory")
    ELSE IF ~f.valid THEN Raise(f.err)
    ELSE Ret([none |-> FALSE, cells |-> f.cells])

load_notebook_uncaught(e, rel) ==
    IF ~e.nbformat
    THEN Ret([nb |-> None, err |-> "nbformat not installed (pip install nbformat)"])
    ELSE LET r == nbformat_read(e, rel) IN
         IF ~r.raised THEN Ret([nb |-> r.value, err |-> ""])
         ELSE Raise(r.err)

load_notebook(e, rel) ==
    IF ~e.nbformat
    THEN Ret([nb |-> None, err |-> "nbformat not installed (pip install nbformat)"])
    ELSE LET r == nbformat_read(e, rel) IN
         IF ~r.raised THEN Ret([nb |-> r.value, err |-> ""])
         ELSE Ret([nb |-> None, err |-> r.err])

nb_all_cells(nb) == nb.cells

IsMarkdown(cell) == cell.cell_type = "markdown"
IsCode(cell) == cell.cell_type = "code"

nb_markdown_cells(nb) == SelectSeq(nb.cells, IsMarkdown)

nb_code_cells(nb) == SelectSeq(nb.cells, IsCode)

has_outputs(nb) ==
    \E i \in DOMAIN nb_code_cells(nb) : Len(nb_code_cells(nb)[i].outputs) > 0

IMAGE_TYPES == {"image/png", "image/jpeg", "image/svg+xml"}

\* out.get("data") or {}
OutData(out) == IF out.has_data THEN out.data ELSE {}

IsImageOutput(out) ==
    \/ "image/png" \in OutData(out)
    \/ "image/jpeg" \in OutData(out)
    \/ "image/svg+xml" \in OutData(out)

RECURSIVE SumSeq(_)
SumSeq(s) == IF Len(s) = 0 THEN 0 ELSE s[1] + SumSeq(Tail(s))

count_image_outputs_per_type(nb) ==
    LET cells == nb_code_cells(nb)
        PerOut(out) == Cardinality(OutData(out) \cap IMAGE_TYPES)
        PerCell(c) == SumSeq([j \in DOMAIN c.outputs |-> PerOut(c.outputs[j])])
    IN SumSeq([i \in DOMAIN cells |-> PerCell(cells[i])])

count_image_outputs(nb) ==
    LET cells == nb_code_cells(nb)
    IN SumSeq([i \in DOMAIN cells |-> Len(SelectSeq(cells[i].outputs, IsImageOutput))])

\* the patterns (by position in `patterns`) found in some cell of a type in search_in
find_strings_in_nb(nb, patterns, search_in) ==
    {patterns[k] : k \in {k \in DOMAIN patterns :
        \E i \in DOMAIN nb_all_cells(nb) :
            /\ nb_all_cells(nb)[i].cell_type \in search_in
            /\ re_search(patterns[k], nb_all_cells(nb)[i].source, TRUE)}}

\* the rendering of a list of patterns in an f-string
ReprList(strs) ==
    "[" \o JoinStr([i \in DOMAIN strs |-> "'" \o strs[i] \o "'"], ", ") \o "]"

must_text == <<
    [src |-> "Wine Classification", alts |-> {<<Lit("Wine Classification")>>}],
    [src |-> "Problem Framing", alts |-> {<<Lit("Problem Framing")>>}],
    [src |-> "UCI.*Wine Quality|Wine Quality.*UCI",
     alts |-> {<<Lit("UCI"), Star("dot"), Lit("Wine Quality")>>,
               <<Lit("Wine Quality"), Star("dot"), Lit("UCI")>>}],
    [src |-> "red\\s*vs\\.?\\s*white|red.*white",
     alts |-> {<<Lit("red"), Star("ws"), Lit("vs"), Star("ws"), Lit("white")>>,
               <<Lit("red"), Star("ws"), Lit("vs"), Lit("."), Star("ws"), Lit("white")>>,
               <<Lit("red"), Star("dot"), Lit("white")>>}],
    [src |-> "stakeholder|impact|ethic|sustainab",
     alts |-> {<<Lit("stakeholder")>>, <<Lit("impact")>>, <<Lit("ethic")>>,
               <<Lit("sustainab")>>}] >>

repro_hints == <<
    [src |-> "__version__", alts |-> {<<Lit("__version__")>>}],
    [src |-> "random_state\\s*=\\s*42",
     alts |-> {<<Lit("random_state"), Star("ws"), Lit("="), Star("ws"), Lit("42")>>}] >>

check_nb01(e) ==
    LET l == load_notebook(e, NB01) IN
    IF l.raised THEN l
    ELSE IF l.value.nb.none
    THEN Ret(<< <<"Notebook 01 loads", FAIL, "Cannot open: " \o l.value.err>> >>)
    ELSE
      LET nb == l.value.nb
          found_ == find_strings_in_nb(nb, must_text, {"markdown", "code"})
          NotFound(m) == m \notin found_
          missing == Filter(must_text, NotFound)
          found2 == find_strings_in_nb(nb, repro_hints, {"code"})
      IN Ret(<< <<"Notebook 01 loads", PASS, "">>,
                IF Len(missing) > 0
                THEN <<"NB01: Problem framing content present", WARN,
                       "Consider adding: " \o ReprList(PatSrc(missing))>>
                ELSE <<"NB01: Problem framing content present", PASS, "">>,
                IF found2 = {}
                THEN <<"NB01: Repro cell (versions/seed)", WARN,
                       "Add a cell that prints pandas/sklearn versions and sets random_state=42 where relevant.">>
                ELSE <<"NB01: Repro cell (versions/seed)", PASS, "">>,
                IF has_outputs(nb)
                THEN <<"NB01: Saved with outputs", PASS, "">>
                ELSE <<"NB01: Saved with outputs", WARN,
                       "Execute and save so GitHub renders outputs.">> >>)

must_code == <<
    [src |-> "read_csv", alts |-> {<<Lit("read_csv")>>}],
    [src |-> "sep\\s*=\\s*[\"']\\;[\"']",
     alts |-> {<<Lit("sep"), Star("ws"), Lit("="), Star("ws"),
                 One("quote"), Lit(";"), One("quote")>>}],
    [src |-> "(?:\\['type'\\]|type)\\s*=",
     alts |-> {<<Lit("['type']"), Star("ws"), Lit("=")>>,
               <<Lit("type"), Star("ws"), Lit("=")>>}],
    [src |-> "concat\\(", alts |-> {<<Lit("concat"), Lit("(")>>}] >>

class_vis_hints == <<
    [src |-> "value_counts\\(", alts |-> {<<Lit("value_counts"), Lit("(")>>}],
    [src |-> "countplot", alts |-> {<<Lit("count"), Lit("plot")>>}],
    [src |-> "barh?\\(", alts |-> {<<Lit("bar"), Lit("(")>>, <<Lit("bar"), Lit("h"), Lit("(")>>}],
    [src |-> "plot\\(", alts |-> {<<Lit("plot"), Lit("(")>>}],
    [src |-> "hist\\(", alts |-> {<<Lit("hist"), Lit("(")>>}] >>

MIN_INTERP_WORDS == 20

RECURSIVE WordCount(_)
\* len(text.split()): the number of maximal runs of non-whitespace lexemes
WordCount(s) ==
    IF Len(s) = 0 THEN 0
    ELSE IF s[1] \in WS THEN WordCount(Tail(s))
    ELSE IF Len(s) > 1 /\ s[2] \notin WS THEN WordCount(Tail(s))
    ELSE 1 + WordCount(Tail(s))

\* any(w in text for w in ["interpretation", "insight", "insights"])
HasInterpWord(text) ==
    \/ Contains(<<"interpretation">>, text)
    \/ Contains(<<"insight">>, text)
    \/ Contains(<<"insight", "s">>, text)

\* re.search(r"\.fit\s*\(", code_text)
FIT_CALL == [src |-> "\\.fit\\s*\\(", alts |-> {<<Lit(".fit"), Star("ws"), Lit("(")>>}]

Sources(cells) == [i \in DOMAIN cells |-> cells[i].source]

trained(nb) ==
    LET code_text == JoinText(Sources(nb_code_cells(nb)), <<"\n">>)
    IN \/ re_search(FIT_CALL, code_text, FALSE)
       \/ \E k \in DOMAIN SKLEARN_CLASS_NAMES : Contains(SKLEARN_CLASS_NAMES[k], code_text)

interp_count(nb) ==
    LET md == nb_markdown_cells(nb)
        code == nb_code_cells(nb)
        MdNote(c) == /\ HasInterpWord(LowerText(c.source))
                     /\ WordCount(LowerText(c.source)) >= MIN_INTERP_WORDS
        CodeNote(c) == HasInterpWord(LowerText(c.source))
    IN Len(SelectSeq(md, MdNote)) + Len(SelectSeq(code, CodeNote))

richness_finding(img_count) ==
    IF img_count >= 2
    THEN <<"NB02: >=2 feature visuals present", PASS,
           "Detected " \o ToString(img_count) \o " image outputs.">>
    ELSE <<"NB02: >=2 feature visuals present", WARN,
           "Add at least two feature plots (e.g., boxplots/hist by class).">>

check_nb02(e) ==
    LET l == load_notebook(e, NB02) IN
    IF l.raised THEN l
    ELSE IF l.value.nb.none
    THEN Ret(<< <<"Notebook 02 loads", FAIL, "Cannot open: " \o l.value.err>> >>)
    ELSE
      LET nb == l.value.nb
          found_code == find_strings_in_nb(nb, must_code, {"code"})
          NotFound(m) == m \notin found_code
          missing == Filter(must_code, NotFound)
          found_vis == find_strings_in_nb(nb, class_vis_hints, {"code"})
          img_count == count_image_outputs(nb)
          interp_markdowns == interp_count(nb)
      IN Ret(<< <<"Notebook 02 loads", PASS, "">>,
                IF Len(missing) > 0
                THEN <<"NB02: Data load + label (0/1) + concat", WARN,
                       "Missing patterns: " \o ReprList(PatSrc(missing))>>
                ELSE <<"NB02: Data load + label (0/1) + concat", PASS, "">>,
                IF found_vis = {} \/ img_count < 1
                THEN <<"NB02: Class balance figure + output", WARN,
                       "Add a bar/plot of class counts and ensure outputs are saved.">>
                ELSE <<"NB02: Class balance figure + output", PASS,
                       "Detected " \o ToString(img_count) \o " image outputs.">>,
                richness_finding(img_count),
                IF interp_markdowns >= 2
                THEN <<"NB02: Figure interpretations present", PASS,
                       ToString(interp_markdowns) \o " interpretation notes found.">>
                ELSE <<"NB02: Figure interpretations present", WARN,
                       "Add 2-3 line interpretations under figures (use the word 'Interpretation' to pass this check).">>,
                IF trained(nb)
                THEN <<"NB02: No model training appears", FAIL,
                       "Detected model training patterns ('.fit(' or classifier names). Move training to Notebook 03.">>
                ELSE <<"NB02: No model training appears", PASS, "">>,
                IF has_outputs(nb)
                THEN <<"NB02: Saved with outputs", PASS, "">>
                ELSE <<"NB02: Saved with outputs", FAIL,
                       "Run all cells and save notebook with outputs so GitHub renders figures.">> >>)

(***************************************************************************)
(* Tabular shapes.                                                          *)
(***************************************************************************)
RED_ROWS_MIN == 1500
RED_ROWS_MAX == 1700
WHITE_ROWS_MIN == 4700
WHITE_ROWS_MAX == 5100
COLS_MIN == 11
COLS_MAX == 13

\* pd.read_csv(path, sep=";")
read_csv(e, rel) ==
    LET f == e.csv[rel] IN
    IF ~path_exists(e, rel) THEN Raise("[Errno 2] No such file or directory: " \o rel)
    ELSE IF ~f.valid THEN Raise(f.err)
    ELSE Ret([rows |-> f.rows, cols |-> f.cols])

\* str(frame.shape)
ShapeStr(fr) == "(" \o ToString(fr.rows) \o ", " \o ToString(fr.cols) \o ")"

shapes_status_strict(red, white) ==
    LET ok_red == (RED_ROWS_MIN < red.rows /\ red.rows < RED_ROWS_MAX)
                    /\ (COLS_MIN <= red.cols /\ red.cols <= COLS_MAX)
        ok_white == (WHITE_ROWS_MIN <= white.rows /\ white.rows <= WHITE_ROWS_MAX)
                    /\ (COLS_MIN <= white.cols /\ white.cols <= COLS_MAX)
    IN IF ok_red /\ ok_white THEN PASS ELSE FAIL

shapes_status(red, white) ==
    LET ok_red == (RED_ROWS_MIN <= red.rows /\ red.rows <= RED_ROWS_MAX)
                    /\ (COLS_MIN <= red.cols /\ red.cols <= COLS_MAX)
        ok_white == (WHITE_ROWS_MIN <= white.rows /\ white.rows <= WHITE_ROWS_MAX)
                    /\ (COLS_MIN <= white.cols /\ white.cols <= COLS_MAX)
    IN IF ok_red /\ ok_white THEN PASS ELSE WARN

check_data_shapes(e) ==
    IF ~e.pd
    THEN Ret(<< <<"Data shapes (red/white)", WARN, "pandas not available; cannot verify shapes">> >>)
    ELSE
      LET red == read_csv(e, RED_CSV) IN
      IF red.raised
      THEN Ret(<< <<"Data shapes (approx UCI)", FAIL, "Error reading CSVs: " \o red.err>> >>)
      ELSE
        LET white == read_csv(e, WHITE_CSV) IN
        IF white.raised
        THEN Ret(<< <<"Data shapes (approx UCI)", FAIL, "Error reading CSVs: " \o white.err>> >>)
        ELSE Ret(<< <<"Data shapes (approx UCI)", shapes_status(red.value, white.value),
                      "red=" \o ShapeStr(red.value) \o ", white=" \o ShapeStr(white.value)>> >>)

(***************************************************************************)
(* The reporter.                                                            *)
(***************************************************************************)
RECURSIVE Repeat(_, _)
\* ch * n
Repeat(ch, n) == IF n <= 0 THEN "" ELSE ch \o Repeat(ch, n - 1)

\* str.ljust
ljust(s, n) == s \o Repeat(" ", n - Len(s))

\* max() over a non-empty sequence of numbers
MaxOf(s) == CHOOSE m \in Range(s) : \A x \in Range(s) : x <= m

IsFail(r) == r[2] = FAIL
IsWarn(r) == r[2] = WARN
IsFailOrWarn(r) == r[2] = FAIL \/ r[2] = WARN

count_failures_with_warn(rs) == Len(SelectSeq(rs, IsFailOrWarn))

\* the value of `failures` after the loop
count_failures(rs) == Len(SelectSeq(rs, IsFail))

\* the value of `warnings` after the loop
count_warnings(rs) == Len(SelectSeq(rs, IsWarn))

report_lines_failures_only(rs) ==
    LET max_label == MaxOf([i \in DOMAIN rs |-> Len(rs[i][1])])
        max_status == MaxOf([i \in DOMAIN rs |-> Len(rs[i][2])])
        Line(r) == ljust(r[1], max_label) \o "  " \o ljust(r[2], max_status) \o "  " \o r[3]
        bad == SelectSeq(rs, IsFailOrWarn)
    IN [i \in DOMAIN bad |-> Line(bad[i])]

\* the list `lines` after the loop
report_lines(rs) ==
    LET max_label == MaxOf([i \in DOMAIN rs |-> Len(rs[i][1])])
        max_status == MaxOf([i \in DOMAIN rs |-> Len(rs[i][2])])
    IN [i \in DOMAIN rs |->
          ljust(rs[i][1], max_label) \o "  " \o ljust(rs[i][2], max_status) \o "  " \o rs[i][3]]

\* now: datetime.now().strftime('%Y-%m-%d %H:%M:%S'); the dash of the header is
\* written "-" here
summarize(rs, now) ==
    IF Len(rs) = 0 THEN Raise("max() arg is an empty sequence")
    ELSE
      LET lines == report_lines(rs)
          header == "QA Report - " \o now
          sep == Repeat("-", Len(header))
          body == JoinStr(lines, "\n")
          footer == "\nSummary: " \o ToString(count_failures(rs)) \o " FAIL, "
                       \o ToString(count_warnings(rs)) \o " WARN\n"
      IN Ret([report |-> [header |-> header, sep |-> sep, lines |-> lines,
                          footer |-> footer,
                          text |-> header \o "\n" \o sep \o "\n" \o body \o footer],
              failures |-> count_failures(rs)])

(***************************************************************************)
(* main.  pc names the next call; found[e] is the value the call of         *)
(* evaluator e returned.                                                    *)
(***************************************************************************)
EVALUATORS == <<"check_files_exist", "check_gitignore", "check_requirements",
                "check_nb01", "check_nb02", "check_data_shapes">>

Evaluate_skipping(name, e) ==
    CASE name = "check_files_exist" -> check_files_exist(e)
      [] name = "check_gitignore" -> check_gitignore(e)
      [] name = "check_requirements" -> check_requirements(e)
      [] name = "check_nb01" -> check_nb01(e)
      [] name = "check_nb02" -> check_nb02(e)
      [] name = "check_data_shapes" ->
            IF found["check_files_exist"].ran
               /\ \E i \in DOMAIN found["check_files_exist"].value :
                      IsFail(found["check_files_exist"].value[i])
            THEN Ret(<< <<"Data shapes (red/white)", WARN, "skipped: files missing">> >>)
            ELSE check_data_shapes(e)

Evaluate(name, e) ==
    CASE name = "check_files_exist" -> check_files_exist(e)
      [] name = "check_gitignore" -> check_gitignore(e)
      [] name = "check_requirements" -> check_requirements(e)
      [] name = "check_nb01" -> check_nb01(e)
      [] name = "check_nb02" -> check_nb02(e)
      [] name = "check_data_shapes" -> check_data_shapes(e)

IndexOf(name) == CHOOSE i \in DOMAIN EVALUATORS : EVALUATORS[i] = name

AfterCall(name) ==
    IF IndexOf(name) < Len(EVALUATORS) THEN EVALUATORS[IndexOf(name) + 1] ELSE "summarize"

NotRun == [ran |-> FALSE, value |-> <<>>]

\* an exception no handler catches: the interpreter prints a traceback and the
\* process ends with status 1
Crash ==
    /\ pc' = "crashed"
    /\ exit_status' = 1
    /\ UNCHANGED <<env, found, results, report, failures, stdout>>

\* results += <evaluator>(root)
Call(name) ==
    /\ pc = name
    /\ LET r == Evaluate(name, env) IN
       IF r.raised THEN Crash
       ELSE /\ results' = results \o r.value
            /\ found' = [found EXCEPT ![name] = [ran |-> TRUE, value |-> r.value]]
            /\ pc' = AfterCall(name)
            /\ UNCHANGED <<env, report, failures, stdout, exit_status>>

\* the evaluators as tasks that run in any order, each on the root alone
Task(name) ==
    /\ pc = "tasks"
    /\ ~found[name].ran
    /\ LET r == Evaluate(name, env) IN
       IF r.raised THEN Crash
       ELSE /\ found' = [found EXCEPT ![name] = [ran |-> TRUE, value |-> r.value]]
            /\ UNCHANGED <<env, pc, results, report, failures, stdout, exit_status>>

RECURSIVE Flatten(_)
Flatten(ss) == IF Len(ss) = 0 THEN <<>> ELSE ss[1] \o Flatten(Tail(ss))

\* the tasks' findings collected in the order main lists the evaluators
Join ==
    /\ pc = "tasks"
    /\ \A i \in DOMAIN EVALUATORS : found[EVALUATORS[i]].ran
    /\ results' = Flatten([i \in DOMAIN EVALUATORS |-> found[EVALUATORS[i]].value])
    /\ pc' = "summarize"
    /\ UNCHANGED <<env, found, report, failures, stdout, exit_status>>

\* report, failures = summarize(results)
Summarize ==
    /\ pc = "summarize"
    /\ LET r == summarize(results, env.now) IN
       IF r.raised THEN Crash
       ELSE /\ report' = r.value.report
            /\ failures' = r.value.failures
            /\ pc' = "print"
            /\ UNCHANGED <<env, found, results, stdout, exit_status>>

\* print(report)
PrintReport ==
    /\ pc = "print"
    /\ stdout' = Append(stdout, report.text)
    /\ pc' = "exit"
    /\ UNCHANGED <<env, found, results, report, failures, exit_status>>

\* the argument of sys.exit
exit_code(n) == IF n > 0 THEN 1 ELSE 0

\* sys.exit(1 if failures > 0 else 0)
Exit ==
    /\ pc = "exit"
    /\ exit_status' = exit_code(failures)
    /\ pc' = "done"
    /\ UNCHANGED <<env, found, results, report, failures, stdout>>

(***************************************************************************)
(* Roots.  A file choice is [present, file].                                *)
(***************************************************************************)
TextFile(t) == [readable |-> TRUE, utf8 |-> TRUE, text |-> t]
NbFile(cells) == [valid |-> TRUE, err |-> "", cells |-> cells]
BadNb == [valid |-> FALSE, err |-> "Notebook does not appear to be JSON", cells |-> <<>>]
CsvFile(rows, cols) == [valid |-> TRUE, err |-> "", rows |-> rows, cols |-> cols]
BadCsv == [valid |-> FALSE, err |-> "Error tokenizing data", rows |-> 0, cols |-> 0]

Present(f) == [present |-> TRUE, file |-> f]
Absent(f) == [present |-> FALSE, file |-> f]

MkEnv(nb1, nb2, red, white, readme, req, git, nbf, pdok) ==
    [exists |-> {NB01 : x \in {1} \cap (IF nb1.present THEN {1} ELSE {})}
                  \cup {NB02 : x \in {1} \cap (IF nb2.present THEN {1} ELSE {})}
                  \cup {RED_CSV : x \in {1} \cap (IF red.present THEN {1} ELSE {})}
                  \cup {WHITE_CSV : x \in {1} \cap (IF white.present THEN {1} ELSE {})}
                  \cup {README : x \in {1} \cap (IF readme THEN {1} ELSE {})}
                  \cup {REQUIREMENTS_TXT : x \in {1} \cap (IF req.present THEN {1} ELSE {})}
                  \cup {GITIGNORE : x \in {1} \cap (IF git.present THEN {1} ELSE {})},
     text |-> (REQUIREMENTS_TXT :> req.file) @@ (GITIGNORE :> git.file),
     nb |-> (NB01 :> nb1.file) @@ (NB02 :> nb2.file),
     csv |-> (RED_CSV :> red.file) @@ (WHITE_CSV :> white.file),
     nbformat |-> nbf,
     pd |-> pdok,
     now |-> "2025-01-01 09:30:00"]

Cell(type, source, outputs) == [cell_type |-> type, source |-> source, outputs |-> outputs]

STREAM_OUT == [has_data |-> FALSE, data |-> {}]
TEXT_OUT == [has_data |-> TRUE, data |-> {"text/plain"}]
PNG_OUT == [has_data |-> TRUE, data |-> {"image/png", "text/plain"}]
MULTI_OUT == [has_data |-> TRUE, data |-> {"image/jpeg", "image/svg+xml"}]

\* twenty words of prose
Prose == [i \in 1..39 |-> IF i % 2 = 1 THEN "word" ELSE " "]

GOOD_NB01 == <<
    Cell("markdown", <<"Wine Classification", " ", "Problem Framing", "\n",
                       "UCI", " ", "Wine Quality", "\n",
                       "Red", " ", "vs", ".", " ", "white", "\n", "stakeholder">>, <<>>),
    Cell("code", <<"print", "(", "__version__", ")">>, <<STREAM_OUT>>) >>

SPARSE_NB01 == <<
    Cell("markdown", <<"Wine Quality", "\n", "UCI", "\n", "red", "\n", "white">>, <<>>),
    Cell("code", <<"random_state", "=", "7">>, <<>>) >>

GOOD_NB02 == <<
    Cell("code", <<"read_csv", "(", "sep", "=", "'", ";", "'", ")", "\n",
                   "type", " ", "=", "0", "\n", "concat", "(", ")">>, <<TEXT_OUT>>),
    Cell("markdown", <<"Interpretation", " ">> \o Prose, <<>>),
    Cell("code", <<"value_counts", "(", ")", ".", "plot", "(", ")">>, <<PNG_OUT>>),
    Cell("code", <<"hist", "(", ")", "\n", "print", "(", "'", "insight", "'", ")">>,
         <<STREAM_OUT, MULTI_OUT>>) >>

TRAINING_NB02 ==
    GOOD_NB02 \o <<Cell("code", <<"RandomForest", "Classifier", "(", ")", ".fit", "(", "X", ")">>, <<>>)>>

BARE_NB02 == <<Cell("markdown", <<"Insight", " ", "word">>, <<PNG_OUT>>),
               Cell("code", <<"read_csv", "(", ")">>, <<>>)>>

GitPlain(k) ==
    CASE k = 1 -> <<".ipynb_checkpoints/">>
      [] k = 2 -> <<"venv/">>
      [] k = 3 -> <<"__pycache__/">>
      [] k = 4 -> <<"results/">>
      [] k = 5 -> <<"notebooks/", "03_", "*">>
      [] k = 6 -> <<"notebooks/", "04_", "*">>
      [] k = 7 -> <<"notebooks/", "05_">>

\* the pattern inside a longer line
GitDecorated(k) ==
    CASE k = 1 -> <<"**/", ".ipynb_checkpoints/">>
      [] k = 2 -> <<".", "venv/">>
      [] k = 3 -> <<"#", " ", "__pycache__/">>
      [] k = 4 -> <<"/", "results/", "*.csv">>
      [] k = 5 -> <<"!", "notebooks/", "03_", "modeling", ".ipynb">>
      [] k = 6 -> <<"/", "notebooks/", "04_", "*">>
      [] k = 7 -> <<"notebooks/", "05_", "*", " ">>

\* a line that resembles the pattern and does not hold it
GitNearMiss(k) ==
    CASE k = 1 -> <<"ipynb_checkpoints">>
      [] k = 2 -> <<"env/">>
      [] k = 3 -> <<"__pycache__">>
      [] k = 4 -> <<"results">>
      [] k = 5 -> <<"notebooks/", "\n", "03_", "*">>
      [] k = 6 -> <<"notebook/", "04_", "*">>
      [] k = 7 -> <<"notebooks/", "*", "05_">>

GitLine(k, form) ==
    CASE form = "plain" -> <<GitPlain(k)>>
      [] form = "decorated" -> <<GitDecorated(k)>>
      [] form = "nearmiss" -> <<GitNearMiss(k)>>
      [] form = "absent" -> <<>>

GitForms == {"plain", "decorated", "nearmiss", "absent"}

\* the .gitignore text with pattern k written in form forms[k]
GitText(forms) ==
    JoinText(Flatten([k \in DOMAIN GITIGNORE_REQUIRED_PATTERNS |-> GitLine(k, forms[k])]),
             <<"\n">>)

FULL_GITIGNORE == GitText([k \in 1..7 |-> "plain"])
PARTIAL_GITIGNORE == GitText([k \in 1..7 |-> IF k \in {2, 6} THEN "absent" ELSE "plain"])

PKGS == <<"pandas", "numpy", "scikit-learn", "matplotlib", "seaborn">>

Capitalised(pkg) ==
    CASE pkg = "pandas" -> "Pandas"
      [] pkg = "numpy" -> "NumPy"
      [] pkg = "scikit-learn" -> "Scikit-Learn"
      [] pkg = "matplotlib" -> "Matplotlib"
      [] pkg = "seaborn" -> "Seaborn"

ReqLine(pkg, form) ==
    CASE form = "plain" -> << <<pkg>> >>
      [] form = "pinned" -> << <<Capitalised(pkg), "==", "1.0">> >>
      [] form = "padded" -> << <<" ", pkg, " ", "\t">> >>
      [] form = "atleast" -> << <<pkg, ">=", "1.0">> >>
      [] form = "comment" -> << <<"#", " ", pkg>> >>
      [] form = "absent" -> <<>>

ReqForms == {"plain", "pinned", "padded", "atleast", "comment", "absent"}

\* the manifest with package PKGS[k] written in form forms[k], a comment first and
\* a blank line in it
ReqText(forms) ==
    JoinText(<< <<"#", " ", "deps">>, <<" ">> >>
               \o Flatten([k \in DOMAIN PKGS |-> ReqLine(PKGS[k], forms[k])])
               \o << <<"requests", "==", "2.0">> >>,
             <<"\n">>)

FULL_REQUIREMENTS == ReqText([k \in 1..5 |-> "plain"])
PARTIAL_REQUIREMENTS == ReqText([k \in 1..5 |-> IF k = 3 THEN "absent" ELSE "pinned"])

GoodNb1 == Present(NbFile(GOOD_NB01))
GoodNb2 == Present(NbFile(GOOD_NB02))
GoodRed == Present(CsvFile(1599, 12))
GoodWhite == Present(CsvFile(4898, 12))
GoodReq == Present(TextFile(FULL_REQUIREMENTS))
GoodGit == Present(TextFile(FULL_GITIGNORE))

Nb1Choices == {Absent(BadNb), Present(BadNb), GoodNb1, Present(NbFile(SPARSE_NB01))}
Nb2Choices == {Absent(BadNb), Present(BadNb), GoodNb2, Present(NbFile(TRAINING_NB02)),
               Present(NbFile(BARE_NB02))}
RedChoices == {Absent(BadCsv), Present(BadCsv), GoodRed, Present(CsvFile(1400, 12))}
WhiteChoices == {Absent(BadCsv), GoodWhite}
ReqChoices == {Absent(TextFile(<<>>)), GoodReq, Present(TextFile(PARTIAL_REQUIREMENTS))}
GitChoices == {Absent(TextFile(<<>>)), GoodGit,
               Present([readable |-> FALSE, utf8 |-> TRUE, text |-> FULL_GITIGNORE])}

\* the roots main is run on
MainEnvs ==
    {MkEnv(n1, n2, r, w, TRUE, rq, g, nbf, pdok) :
        n1 \in Nb1Choices, n2 \in Nb2Choices, r \in RedChoices, w \in WhiteChoices,
        rq \in ReqChoices, g \in GitChoices, nbf \in BOOLEAN, pdok \in BOOLEAN}

InitVars(e) ==
    /\ env = e
    /\ found = [n \in Range(EVALUATORS) |-> NotRun]
    /\ results = <<>>
    /\ report = [header |-> "", sep |-> "", lines |-> <<>>, footer |-> "", text |-> ""]
    /\ failures = 0
    /\ stdout = <<>>
    /\ exit_status = -1

\* main after argument parsing: results = []
Init ==
    /\ \E e \in MainEnvs : InitVars(e)
    /\ pc = EVALUATORS[1]

Next ==
    \/ \E name \in Range(EVALUATORS) : Call(name)
    \/ Summarize
    \/ PrintReport
    \/ Exit

Spec == Init /\ [][Next]_vars

(***************************************************************************)
(* One evaluator on its inputs: main at the call of `name`, the earlier     *)
(* evaluators having returned.                                              *)
(***************************************************************************)
Earlier(name) == SubSeq(EVALUATORS, 1, IndexOf(name) - 1)

InitAt(name, e) ==
    /\ env = e
    /\ pc = name
    /\ found = [n \in Range(EVALUATORS) |->
                  IF IndexOf(n) < IndexOf(name)
                  THEN [ran |-> TRUE, value |-> Evaluate(n, e).value]
                  ELSE NotRun]
    /\ results = Flatten([i \in DOMAIN Earlier(name) |-> found[Earlier(name)[i]].value])
    /\ report = [header |-> "", sep |-> "", lines |-> <<>>, footer |-> "", text |-> ""]
    /\ failures = 0
    /\ stdout = <<>>
    /\ exit_status = -1

\* check_files_exist on every subset of the required files
FilesEnvs ==
    {MkEnv(IF a THEN GoodNb1 ELSE Absent(BadNb), IF b THEN GoodNb2 ELSE Absent(BadNb),
           IF c THEN GoodRed ELSE Absent(BadCsv), IF d THEN GoodWhite ELSE Absent(BadCsv),
           rd, IF f THEN GoodReq ELSE Absent(TextFile(<<>>)),
           IF g THEN GoodGit ELSE Absent(TextFile(<<>>)), TRUE, TRUE) :
        a \in BOOLEAN, b \in BOOLEAN, c \in BOOLEAN, d \in BOOLEAN, rd \in BOOLEAN,
        f \in BOOLEAN, g \in BOOLEAN}

InitFiles == \E e \in FilesEnvs : InitAt("check_files_exist", e)
NextFiles == Call("check_files_exist")
SpecFiles == InitFiles /\ [][NextFiles]_vars

WithGit(g) == MkEnv(GoodNb1, GoodNb2, GoodRed, GoodWhite, TRUE, GoodReq, g, TRUE, TRUE)

\* check_gitignore on ignore files with each pattern plain, decorated, nearly there
\* or absent; on an unreadable, a latin-1 and a missing file
GitEnvs ==
    {WithGit(Present(TextFile(GitText(forms)))) : forms \in [1..7 -> GitForms]}
      \cup {WithGit(Absent(TextFile(FULL_GITIGNORE))),
            WithGit(Present([readable |-> FALSE, utf8 |-> TRUE, text |-> FULL_GITIGNORE])),
            WithGit(Present([readable |-> TRUE, utf8 |-> FALSE, text |-> FULL_GITIGNORE]))}

InitGitignore == \E e \in GitEnvs : InitAt("check_gitignore", e)
NextGitignore == Call("check_gitignore")
SpecGitignore == InitGitignore /\ [][NextGitignore]_vars

WithReq(r) == MkEnv(GoodNb1, GoodNb2, GoodRed, GoodWhite, TRUE, r, GoodGit, TRUE, TRUE)

ReqEnvs ==
    {WithReq(Present(TextFile(ReqText(forms)))) : forms \in [1..5 -> ReqForms]}
      \cup {WithReq(Absent(TextFile(FULL_REQUIREMENTS))),
            WithReq(Present([readable |-> FALSE, utf8 |-> TRUE, text |-> FULL_REQUIREMENTS]))}

InitRequirements == \E e \in ReqEnvs : InitAt("check_requirements", e)
NextRequirements == Call("check_requirements")
SpecRequirements == InitRequirements /\ [][NextRequirements]_vars

WithCsv(r, w, pdok) ==
    MkEnv(Absent(BadNb), Present(BadNb), r, w, TRUE, GoodReq, Absent(TextFile(<<>>)), TRUE, pdok)

RedRows == {RED_ROWS_MIN - 1, RED_ROWS_MIN, 1599, RED_ROWS_MAX, RED_ROWS_MAX + 1}
WhiteRows == {WHITE_ROWS_MIN - 1, WHITE_ROWS_MIN, 4898, WHITE_ROWS_MAX, WHITE_ROWS_MAX + 1}
Cols == {COLS_MIN - 1, COLS_MIN, 12, COLS_MAX, COLS_MAX + 1}

ShapeEnvs ==
    {WithCsv(r, w, pdok) :
        r \in {Present(CsvFile(n, c)) : n \in RedRows, c \in Cols}
                \cup {Absent(BadCsv), Present(BadCsv)},
        w \in {Present(CsvFile(n, c)) : n \in WhiteRows, c \in Cols}
                \cup {Absent(BadCsv), Present(BadCsv)},
        pdok \in BOOLEAN}

InitShapes == \E e \in ShapeEnvs : InitAt("check_data_shapes", e)
NextShapes == Call("check_data_shapes")
SpecShapes == InitShapes /\ [][NextShapes]_vars

WithNb2(n, nbf) ==
    MkEnv(Present(BadNb), n, GoodRed, GoodWhite, TRUE, Absent(TextFile(<<>>)),
          Absent(TextFile(<<>>)), nbf, TRUE)

\* sequences over S of length at most n
SeqsUpTo(S, n) == UNION {[1..k -> S] : k \in 0..n}

MaxSrcCells == 2

CodeSources ==
    {<<>>, <<"model", ".fit">>, <<"(", "X", ")">>, <<"model", ".fit", "(", "X", ")">>,
     <<"model", ".fit", " ", "\n", "(", "X", ")">>, <<"fit", "(", "X", ")">>,
     <<"SVC", "(", ")">>, <<"Linear", "SVC">>, <<"svc">>, <<"GaussianNB">>,
     <<"read_csv", "(", ")", "\n", "plot", "(", ")">>, <<"print", "(", "insight", ")">>}

SrcCells ==
    {Cell(t, src, outs) : t \in {"markdown", "code"}, src \in CodeSources,
                          outs \in {<<>>, <<PNG_OUT>>}}

InitNb02Code ==
    \E cells \in SeqsUpTo(SrcCells, MaxSrcCells) :
        InitAt("check_nb02", WithNb2(Present(NbFile(cells)), TRUE))
NextNb02Code == Call("check_nb02")
SpecNb02Code == InitNb02Code /\ [][NextNb02Code]_vars

MaxCells == 2
MaxOutputs == 2

OutputForms == {STREAM_OUT, PNG_OUT, MULTI_OUT}

OutCells ==
    {Cell("code", <<"plot", "(", ")">>, outs) : outs \in SeqsUpTo(OutputForms, MaxOutputs)}
      \cup {Cell("markdown", <<"plot", "(", ")">>, <<PNG_OUT>>),
            Cell("raw", <<>>, <<MULTI_OUT, PNG_OUT>>),
            Cell("code", <<>>, <<TEXT_OUT>>)}

TotalOutputs(cells) == SumSeq([i \in DOMAIN cells |-> Len(cells[i].outputs)])

\* check_nb02 on the documents of at most MaxCells cells and MaxOutputs outputs
InitNb02Outputs ==
    \E cells \in {c \in SeqsUpTo(OutCells, MaxCells) : TotalOutputs(c) <= MaxOutputs} :
        InitAt("check_nb02", WithNb2(Present(NbFile(cells)), TRUE))
NextNb02Outputs == Call("check_nb02")
SpecNb02Outputs == InitNb02Outputs /\ [][NextNb02Outputs]_vars

MaxFindings == 3

SomeFindings ==
    {<<"Exists: README.md", PASS, "">>, <<"Exists: README.md", FAIL, "Missing README.md">>,
     <<"Notebook 01 loads", FAIL, "Cannot open: x">>,
     <<"NB01: Saved with outputs", WARN, "Execute and save so GitHub renders outputs.">>,
     <<"Data shapes (approx UCI)", WARN, "red=(1, 1), white=(2, 2)">>,
     <<"Data shapes (approx UCI)", PASS, "red=(1599, 12), white=(4898, 12)">>}

\* summarize on the findings lists of at most MaxFindings findings
InitSummarize ==
    /\ env = WithReq(GoodReq)
    /\ pc = "summarize"
    /\ found = [n \in Range(EVALUATORS) |-> NotRun]
    /\ results \in SeqsUpTo(SomeFindings, MaxFindings) \ {<<>>}
    /\ report = [header |-> "", sep |-> "", lines |-> <<>>, footer |-> "", text |-> ""]
    /\ failures = 0
    /\ stdout = <<>>
    /\ exit_status = -1
NextSummarize == Summarize \/ PrintReport \/ Exit
SpecSummarize == InitSummarize /\ [][NextSummarize]_vars

\* the roots the evaluators are run on as tasks
TaskEnvs ==
    {MkEnv(n1, n2, r, GoodWhite, TRUE, rq, g, nbf, pdok) :
        n1 \in {Absent(BadNb), GoodNb1}, n2 \in {GoodNb2, Present(NbFile(TRAINING_NB02))},
        r \in {Absent(BadCsv), GoodRed}, rq \in {GoodReq, Present(TextFile(PARTIAL_REQUIREMENTS))},
        g \in {Absent(TextFile(<<>>)), GoodGit}, nbf \in BOOLEAN, pdok \in BOOLEAN}

InitTasks ==
    /\ \E e \in TaskEnvs : InitVars(e)
    /\ pc = "tasks"
NextTasks ==
    \/ \E name \in Range(EVALUATORS) : Task(name)
    \/ Join
    \/ Summarize
    \/ PrintReport
    \/ Exit
SpecTasks == InitTasks /\ [][NextTasks]_vars

(***************************************************************************)
(* Properties.                                                              *)
(***************************************************************************)
Ran(name) == found[name].ran
Value(name) == found[name].value

FailIndices(rs) == {i \in DOMAIN rs : rs[i][2] = FAIL}
WarnIndices(rs) == {i \in DOMAIN rs : rs[i][2] = WARN}
NotWarn(r) == r[2] # WARN
ExtraWarn == <<"NB01: Saved with outputs", WARN, "Execute and save so GitHub renders outputs.">>

\* C1: when main has exited, the exit status is 0 if no finding of the run has
\* severity FAIL and 1 otherwise, and it is the status the same findings give with
\* every WARN finding removed and with one more WARN finding added.
C1_ExitStatusIffNoFail ==
    pc = "done" =>
        /\ exit_status = (IF FailIndices(results) = {} THEN 0 ELSE 1)
        /\ exit_code(summarize(SelectSeq(results, NotWarn), env.now).value.failures) = exit_status
        /\ exit_code(summarize(Append(results, ExtraWarn), env.now).value.failures) = exit_status

C1_Witness ==
    /\ pc = "done"
    /\ exit_status = 0
    /\ Cardinality(WarnIndices(results)) >= 2

LoadFails(e, rel) == ~e.nbformat \/ rel \notin e.exists \/ ~e.nb[rel].valid
CsvFails(e, rel) == rel \notin e.exists \/ ~e.csv[rel].valid

\* C2: on every root and every availability of nbformat and pandas no evaluator
\* raises: the evaluator main is about to call returns findings, main never ends in
\* an uncaught exception, a notebook that cannot be loaded and a delimited file that cannot
\* be read each become one FAIL finding, and at exit exactly one report has been
\* printed and the exit status is 0 or 1.
C2_NoEvaluatorRaises ==
    /\ pc \in Range(EVALUATORS) \cup {"summarize", "print", "exit", "done"}
    /\ \A name \in Range(EVALUATORS) : pc = name => ~Evaluate(name, env).raised
    /\ Len(stdout) <= 1
    /\ pc = "done" => Len(stdout) = 1 /\ exit_status \in {0, 1}
    /\ Ran("check_nb01") /\ LoadFails(env, NB01) =>
          Len(Value("check_nb01")) = 1 /\ Value("check_nb01")[1][2] = FAIL
    /\ Ran("check_nb02") /\ LoadFails(env, NB02) =>
          Len(Value("check_nb02")) = 1 /\ Value("check_nb02")[1][2] = FAIL
    /\ Ran("check_data_shapes") /\ env.pd /\ (CsvFails(env, RED_CSV) \/ CsvFails(env, WHITE_CSV)) =>
          Len(Value("check_data_shapes")) = 1 /\ Value("check_data_shapes")[1][2] = FAIL
    /\ Ran("check_data_shapes") /\ ~env.pd =>
          Len(Value("check_data_shapes")) = 1 /\ Value("check_data_shapes")[1][2] = WARN

C2_Witness ==
    /\ pc = "done"
    /\ Len(stdout) = 1
    /\ env.nbformat /\ NB01 \in env.exists /\ ~env.nb[NB01].valid
    /\ NB02 \notin env.exists
    /\ env.pd /\ RED_CSV \in env.exists /\ ~env.csv[RED_CSV].valid
    /\ GITIGNORE \in env.exists /\ ~env.text[GITIGNORE].readable
    /\ REQUIREMENTS_TXT \notin env.exists

\* C3: check_files_exist returns one finding per entry of REQUIRED_FILES, in the
\* order of the catalog: PASS with an empty detail when the path exists, FAIL with
\* the detail "Missing <path>" when it does not; a root missing exactly one required
\* file gives exactly one FAIL, which names that file.
C3_OneFindingPerRequiredFile ==
    Ran("check_files_exist") =>
        LET v == Value("check_files_exist") IN
        /\ Len(v) = Len(REQUIRED_FILES)
        /\ \A i \in DOMAIN REQUIRED_FILES :
              IF REQUIRED_FILES[i] \in env.exists
              THEN v[i][2] = PASS /\ v[i][3] = ""
              ELSE v[i][2] = FAIL /\ v[i][3] = "Missing " \o REQUIRED_FILES[i]
        /\ \A rel \in Range(REQUIRED_FILES) :
              env.exists = Range(REQUIRED_FILES) \ {rel} =>
                 /\ Cardinality(FailIndices(v)) = 1
                 /\ \A i \in FailIndices(v) : v[i][3] = "Missing " \o rel

C3_Witness ==
    /\ Ran("check_files_exist")
    /\ env.exists = Range(REQUIRED_FILES) \ {WHITE_CSV}

(***************************************************************************)
(* The manifest as a reader of requirements files takes it: on each line    *)
(* that is neither blank nor a comment, the name before any version pin.    *)
(***************************************************************************)
PinSeparators == {"==", ">=", "<=", "~=", "!=", ">", "<"}

NameBeforePin(line) ==
    LET t == strip(line)
        cut == {i \in DOMAIN t : t[i] \in PinSeparators}
        first == IF cut = {} THEN Len(t) + 1
                 ELSE CHOOSE i \in cut : \A j \in cut : i <= j
    IN Concat(LowerText(strip(SubSeq(t, 1, first - 1))))

Listed(text) ==
    {NameBeforePin(splitlines(text)[i]) :
        i \in {j \in DOMAIN splitlines(text) :
                 /\ Len(strip(splitlines(text)[j])) > 0
                 /\ strip(splitlines(text)[j])[1] # "#"}}

ReqReadable == REQUIREMENTS_TXT \in env.exists /\ env.text[REQUIREMENTS_TXT].readable

\* C4: for a manifest that lists all five minimal dependencies, in any case and with
\* or without a version pin, check_requirements gives PASS; for a manifest that omits
\* a non-empty subset of them it gives one WARN whose detail names exactly that subset.
C4_ManifestCoverage ==
    Ran("check_requirements") /\ ReqReadable =>
        LET v == Value("check_requirements")
            omitted == REQUIREMENTS_MIN \ Listed(env.text[REQUIREMENTS_TXT].text)
            Omitted(n) == n \in omitted
        IN /\ Len(v) = 1
           /\ omitted = {} => v[1][2] = PASS
           /\ omitted # {} =>
                 /\ v[1][2] = WARN
                 /\ v[1][3] = "Missing: " \o JoinStr(SelectSeq(SortedNames, Omitted), ", ")

(***************************************************************************)
(* The ignore file line by line: pattern k is in the file when one of its   *)
(* lines holds the literal text of the pattern.                             *)
(***************************************************************************)
PatternText(k) ==
    CASE k = 1 -> <<".ipynb_checkpoints/">>
      [] k = 2 -> <<"venv/">>
      [] k = 3 -> <<"__pycache__/">>
      [] k = 4 -> <<"results/">>
      [] k = 5 -> <<"notebooks/", "03_">>
      [] k = 6 -> <<"notebooks/", "04_">>
      [] k = 7 -> <<"notebooks/", "05_">>

NotInFile(text) ==
    {k \in DOMAIN GITIGNORE_REQUIRED_PATTERNS :
        ~\E i \in DOMAIN splitlines(text) : Contains(PatternText(k), splitlines(text)[i])}

GitReadable == GITIGNORE \in env.exists /\ env.text[GITIGNORE].readable

\* C5: check_gitignore returns exactly one finding: FAIL when .gitignore is absent;
\* PASS when the file holds every required pattern; and, when the file holds every
\* required pattern but one, WARN with a detail naming that pattern and no other.
C5_IgnoreRuleCoverage ==
    Ran("check_gitignore") =>
        LET v == Value("check_gitignore") IN
        /\ Len(v) = 1
        /\ GITIGNORE \notin env.exists => v[1][2] = FAIL
        /\ GitReadable =>
              LET out == NotInFile(env.text[GITIGNORE].text) IN
              /\ out = {} => v[1][2] = PASS
              /\ \A k \in DOMAIN GITIGNORE_REQUIRED_PATTERNS :
                    out = {k} =>
                       /\ v[1][2] = WARN
                       /\ v[1][3] = "Add patterns: " \o GITIGNORE_REQUIRED_PATTERNS[k].src

C5_Witness ==
    /\ Ran("check_gitignore")
    /\ GitReadable
    /\ NotInFile(env.text[GITIGNORE].text) = {2}
    /\ Contains(<<"env/">>, env.text[GITIGNORE].text)
    /\ Contains(<<"**/", ".ipynb_checkpoints/">>, env.text[GITIGNORE].text)

Nb02Loaded == env.nbformat /\ NB02 \in env.exists /\ env.nb[NB02].valid

\* a code cell whose own source holds a model-fit call or a cataloged classifier name
CellTrains(c) ==
    /\ c.cell_type = "code"
    /\ \/ re_search(FIT_CALL, c.source, FALSE)
       \/ \E k \in DOMAIN SKLEARN_CLASS_NAMES : Contains(SKLEARN_CLASS_NAMES[k], c.source)

\* C6: for every loadable notebook 02, the finding "NB02: No model training appears"
\* is FAIL if some code cell holds a model-fit call or a cataloged classifier name and
\* PASS if no code cell holds either, whatever the other findings of check_nb02 are
\* and whatever the markdown cells hold.
C6_TrainingFindingPerCell ==
    Ran("check_nb02") /\ Nb02Loaded =>
        LET cells == env.nb[NB02].cells
            f == Value("check_nb02")[6]
        IN /\ f[1] = "NB02: No model training appears"
           /\ (\E i \in DOMAIN cells : CellTrains(cells[i])) => f[2] = FAIL
           /\ (\A i \in DOMAIN cells : ~CellTrains(cells[i])) => f[2] = PASS

LeastBound(S) == CHOOSE n \in 0..64 : (\A x \in S : x <= n) /\ (\A m \in 0..(n - 1) : \E x \in S : x > m)

\* C8: for every non-empty list of findings, the report summarize returns has one
\* line per finding, in the order of the list, each made of the finding's label,
\* severity and detail; the failure count returned is the number of FAIL findings, and
\* the summary line gives that number and the number of WARN findings.
C8_ReportKeepsEveryFinding ==
    pc \in {"print", "exit", "done"} =>
        LET w1 == LeastBound({Len(results[i][1]) : i \in DOMAIN results})
            w2 == LeastBound({Len(results[i][2]) : i \in DOMAIN results})
        IN /\ Len(report.lines) = Len(results)
           /\ \A i \in DOMAIN results :
                 report.lines[i] = results[i][1] \o Repeat(" ", w1 - Len(results[i][1])) \o "  "
                                     \o results[i][2] \o Repeat(" ", w2 - Len(results[i][2]))
                                     \o "  " \o results[i][3]
           /\ failures = Cardinality(FailIndices(results))
           /\ report.footer = "\nSummary: " \o ToString(Cardinality(FailIndices(results)))
                                \o " FAIL, " \o ToString(Cardinality(WarnIndices(results)))
                                \o " WARN\n"

C8_Witness ==
    /\ pc = "done"
    /\ Len(results) = 3
    /\ results[1][2] = PASS /\ results[2][2] = WARN /\ results[3][2] = FAIL
    /\ failures = 1

InBand(f, lo, hi) == f.rows \in lo..hi /\ f.cols \in 11..13

\* C9: check_data_shapes returns exactly one finding: WARN when pandas is not
\* available; otherwise FAIL, with the error's text, when reading either file raises,
\* and only then; PASS when the red file has 1500..1700 rows and the white file
\* 4700..5100 rows, each with 11..13 columns; WARN when either file is outside its
\* band; and the detail of the PASS and of that WARN gives both shapes.
C9_ShapeFinding ==
    Ran("check_data_shapes") =>
        LET v == Value("check_data_shapes")
            red == env.csv[RED_CSV]
            white == env.csv[WHITE_CSV]
        IN /\ Len(v) = 1
           /\ ~env.pd => v[1][2] = WARN
           /\ env.pd /\ CsvFails(env, RED_CSV) =>
                 /\ v[1][2] = FAIL
                 /\ v[1][3] = "Error reading CSVs: "
                                \o (IF RED_CSV \in env.exists THEN red.err
                                    ELSE "[Errno 2] No such file or directory: " \o RED_CSV)
           /\ env.pd /\ ~CsvFails(env, RED_CSV) /\ CsvFails(env, WHITE_CSV) =>
                 /\ v[1][2] = FAIL
                 /\ v[1][3] = "Error reading CSVs: "
                                \o (IF WHITE_CSV \in env.exists THEN white.err
                                    ELSE "[Errno 2] No such file or directory: " \o WHITE_CSV)
           /\ env.pd /\ ~CsvFails(env, RED_CSV) /\ ~CsvFails(env, WHITE_CSV) =>
                 /\ v[1][2] = (IF InBand(red, 1500, 1700) /\ InBand(white, 4700, 5100)
                               THEN PASS ELSE WARN)
                 /\ v[1][3] = "red=(" \o ToString(red.rows) \o ", " \o ToString(red.cols)
                                \o "), white=(" \o ToString(white.rows) \o ", "
                                \o ToString(white.cols) \o ")"

C9_Witness ==
    /\ Ran("check_data_shapes")
    /\ env.pd /\ ~CsvFails(env, RED_CSV) /\ ~CsvFails(env, WHITE_CSV)
    /\ env.csv[RED_CSV].rows = 1700 /\ env.csv[RED_CSV].cols = 11
    /\ env.csv[WHITE_CSV].rows = 5101 /\ env.csv[WHITE_CSV].cols = 12
    /\ Value("check_data_shapes")[1][2] = WARN

\* the output records of code cells that carry an image media type
ImageOutputs(cells) ==
    {<<i, j>> \in (DOMAIN cells) \X (1..MaxOutputs + 2) :
        /\ cells[i].cell_type = "code"
        /\ j \in DOMAIN cells[i].outputs
        /\ cells[i].outputs[j].has_data
        /\ cells[i].outputs[j].data \cap {"image/png", "image/jpeg", "image/svg+xml"} # {}}

\* C10: for every loadable notebook 02, the finding "NB02: >=2 feature visuals
\* present" is WARN when fewer than two output records of code cells carry an image
\* media type and PASS when two or more do; a record with several image types counts
\* once and the outputs of cells that are not code cells do not count.
C10_RichnessFinding ==
    Ran("check_nb02") /\ Nb02Loaded =>
        LET cells == env.nb[NB02].cells
            f == Value("check_nb02")[4]
        IN /\ f[1] = "NB02: >=2 feature visuals present"
           /\ f[2] = (IF Cardinality(ImageOutputs(cells)) >= 2 THEN PASS ELSE WARN)

C10_Witness ==
    /\ Ran("check_nb02") /\ Nb02Loaded
    /\ Cardinality(ImageOutputs(env.nb[NB02].cells)) = 1
    /\ \E i \in DOMAIN env.nb[NB02].cells :
          /\ env.nb[NB02].cells[i].cell_type = "code"
          /\ MULTI_OUT \in Range(env.nb[NB02].cells[i].outputs)
    /\ \E i \in DOMAIN env.nb[NB02].cells :
          /\ env.nb[NB02].cells[i].cell_type # "code"
          /\ PNG_OUT \in Range(env.nb[NB02].cells[i].outputs)

====
